---- MODULE Spec2Model ----
(***************************************************************************)
(* Binary-search primitives of DTCMP (src/dtcmp_search_binary.c):          *)
(*   DTCMP_Search_local_low_binary       lowest index of a target          *)
(*   DTCMP_Search_local_high_binary      highest index of a target         *)
(*   DTCMP_Search_local_low_list_binary  batched, recursive low search     *)
(* Indices are C indices (0-based); list[i+1] is the record at C index i.  *)
(***************************************************************************)
EXTENDS Integers, Sequences, FiniteSets, TLC

\* ------------------------------------------------------------------ bounds
MaxLen == 4      \* longest ordered list
MaxKey == 3      \* keys are 1..MaxKey
MaxNum == 3      \* most targets in one batched call
MaxIter == 5     \* most loop iterations followed in the step-wise model

Keys == 1..MaxKey
Trap == MaxKey + 1   \* reading outside a buffer may fault instead of yielding a key

\* ------------------------------------------------------------------ C int
IntMax == 2147483647
IntMin == (-IntMax) - 1
Unset == IntMin      \* content of the output memory before the call

\* a + b in a 32-bit int, wrapping on overflow
AddInt(a, b) ==
  IF a > 0 /\ b > 0 /\ a > IntMax - b THEN (a + IntMin) + (b + IntMin)
  ELSE IF a < 0 /\ b < 0 /\ a < IntMin - b THEN (a - IntMin) + (b - IntMin)
  ELSE a + b

\* a - b in a 32-bit int, wrapping on overflow
SubInt(a, b) ==
  IF b = IntMin THEN AddInt(AddInt(a, IntMax), 1) ELSE AddInt(a, -b)

\* x / 2 in C: the quotient truncates toward zero
CDiv2(x) ==
  IF x >= 0 THEN x \div 2
  ELSE IF x = IntMin THEN (-(IntMax \div 2)) - 1
  ELSE -((-x) \div 2)

\* x & 0x1 of a two's complement int
BitAnd1(x) == x % 2

\* ------------------------------------------------------------------ state
VARIABLES
  list,      \* the ordered list of records (their keys)
  cmp,       \* the comparison operation handle
  outside,   \* what a read outside a buffer yields: a stale key, or Trap
  op,        \* the function called last: "none", "low", "high", "lowlist"
  target,    \* argument: the target key
  targets,   \* argument: the array of target keys
  num,       \* argument: the number of targets
  low,       \* argument: lowest index of the window (a local in the loop model)
  high,      \* argument: highest index of the window (a local in the loop model)
  flag,      \* OUT: 1 if the target is in the list
  index,     \* OUT: the index found
  indicies,  \* OUT: memory at the indicies pointer, slots 0..MaxNum
  ncmp,      \* number of dtcmp_op_eval calls made by the call
  probes,    \* C indices of the records the comparator was given
  treads,    \* C indices of the targets read
  calls,     \* recursive calls made: caller's and callee's windows and counts
  status,    \* "ok", or "fault" when a read outside a buffer trapped
  pc,        \* "idle" before the call, "done" after it; the position in the loop model
  tasks,     \* the branches running in the fork-join model
  written    \* fork-join model: how often each slot of indicies was written

vars == <<list, cmp, outside, op, target, targets, num, low, high, flag, index,
          indicies, ncmp, probes, treads, calls, status, pc, tasks, written>>

\* ------------------------------------------------------------------ comparator
Ops == {"ASCEND", "DESCEND"}

Sign(x) == IF x < 0 THEN -1 ELSE IF x > 0 THEN 1 ELSE 0

\* ternary comparison of a key with a record's key under the operation c
dtcmp_op_eval(t, candidate, c) ==
  IF c = "ASCEND" THEN Sign(t - candidate) ELSE Sign(candidate - t)

\* the list is ordered under the operation
Ordered(s, c) ==
  \A i \in 1..Len(s) : \A j \in i..Len(s) : dtcmp_op_eval(s[i], s[j], c) <= 0

SeqsUpTo(n) == UNION {[1..k -> Keys] : k \in 0..n}

OrderedLists(c) == {s \in SeqsUpTo(MaxLen) : Ordered(s, c)}

\* the record at C index i: (char*)list + i * extent
ListAt(lst, i) == IF i >= 0 /\ i < Len(lst) THEN lst[i + 1] ELSE outside

\* the target at C index i: (char*)targets + i * target_extent
TargetAt(ts, i) == IF i >= 0 /\ i < Len(ts) THEN ts[i + 1] ELSE outside

\* ------------------------------------------------------------------ low search
\* int mid = (high + low) / 2
LowMid(lo, hi) == CDiv2(AddInt(hi, lo))

\* variant: the loop is left at the first match
LowBodyStopAtFirst(lo, hi, fl, mid, result) ==
  IF result = 0 THEN [low |-> lo, high |-> mid, flag |-> 1, brk |-> TRUE]
  ELSE IF result < 0
    THEN [low |-> lo, high |-> SubInt(mid, 1), flag |-> fl, brk |-> FALSE]
    ELSE [low |-> AddInt(mid, 1), high |-> hi, flag |-> fl, brk |-> FALSE]

\* one iteration of the loop, given the comparator's result at mid
LowBody(lo, hi, fl, mid, result) ==
  IF result = 0 THEN [low |-> lo, high |-> mid, flag |-> 1, brk |-> (lo = mid)]
  ELSE IF result < 0
    THEN [low |-> lo, high |-> SubInt(mid, 1), flag |-> fl, brk |-> FALSE]
    ELSE [low |-> AddInt(mid, 1), high |-> hi, flag |-> fl, brk |-> FALSE]

\* variant: the index is high + 1 even after a match
LowIndexAlwaysNext(fl, hi) == AddInt(hi, 1)

\* variant: the index is high even without a match
LowIndexNoIncrement(fl, hi) == hi

\* the index stored after the loop
LowIndex(fl, hi) == IF fl # 0 THEN hi ELSE AddInt(hi, 1)

RECURSIVE LowLoop(_, _, _, _, _, _, _, _)
LowLoop(t, lst, lo, hi, c, fl, n, pr) ==
  IF ~(lo <= hi)
  THEN [flag |-> fl, index |-> LowIndex(fl, hi), ncmp |-> n, probes |-> pr,
        fault |-> FALSE]
  ELSE LET mid == LowMid(lo, hi)
           candidate == ListAt(lst, mid)
       IN IF candidate = Trap \/ t = Trap
          THEN [flag |-> fl, index |-> Unset, ncmp |-> n,
                probes |-> pr \cup {mid}, fault |-> TRUE]
          ELSE LET b == LowBody(lo, hi, fl, mid, dtcmp_op_eval(t, candidate, c))
               IN IF b.brk
                  THEN [flag |-> b.flag, index |-> LowIndex(b.flag, b.high),
                        ncmp |-> n + 1, probes |-> pr \cup {mid}, fault |-> FALSE]
                  ELSE LowLoop(t, lst, b.low, b.high, c, b.flag, n + 1,
                               pr \cup {mid})

DTCMP_Search_local_low_binary(t, lst, lo, hi, c) ==
  LowLoop(t, lst, lo, hi, c, 0, 0, {})

\* ------------------------------------------------------------------ high search
\* variant: the midpoint moves up by one whenever low < high
HighMidRoundUp(lo, hi) ==
  AddInt(CDiv2(AddInt(hi, lo)), IF hi > lo THEN 1 ELSE 0)

\* int mid = (high + low) / 2 + ((high - low) & 0x1)
HighMid(lo, hi) == AddInt(CDiv2(AddInt(hi, lo)), BitAnd1(SubInt(hi, lo)))

\* variant: the loop is left at the first match
HighBodyStopAtFirst(lo, hi, fl, mid, result) ==
  IF result = 0 THEN [low |-> mid, high |-> hi, flag |-> 1, brk |-> TRUE]
  ELSE IF result < 0
    THEN [low |-> lo, high |-> SubInt(mid, 1), flag |-> fl, brk |-> FALSE]
    ELSE [low |-> AddInt(mid, 1), high |-> hi, flag |-> fl, brk |-> FALSE]

\* one iteration of the loop, given the comparator's result at mid
HighBody(lo, hi, fl, mid, result) ==
  IF result = 0 THEN [low |-> mid, high |-> hi, flag |-> 1, brk |-> (mid = hi)]
  ELSE IF result < 0
    THEN [low |-> lo, high |-> SubInt(mid, 1), flag |-> fl, brk |-> FALSE]
    ELSE [low |-> AddInt(mid, 1), high |-> hi, flag |-> fl, brk |-> FALSE]

\* the index stored after the loop
HighIndex(fl, lo) == IF fl # 0 THEN lo ELSE SubInt(lo, 1)

RECURSIVE HighLoop(_, _, _, _, _, _, _, _)
HighLoop(t, lst, lo, hi, c, fl, n, pr) ==
  IF ~(lo <= hi)
  THEN [flag |-> fl, index |-> HighIndex(fl, lo), ncmp |-> n, probes |-> pr,
        fault |-> FALSE]
  ELSE LET mid == HighMid(lo, hi)
           candidate == ListAt(lst, mid)
       IN IF candidate = Trap \/ t = Trap
          THEN [flag |-> fl, index |-> Unset, ncmp |-> n,
                probes |-> pr \cup {mid}, fault |-> TRUE]
          ELSE LET b == HighBody(lo, hi, fl, mid, dtcmp_op_eval(t, candidate, c))
               IN IF b.brk
                  THEN [flag |-> b.flag, index |-> HighIndex(b.flag, b.low),
                        ncmp |-> n + 1, probes |-> pr \cup {mid}, fault |-> FALSE]
                  ELSE HighLoop(t, lst, b.low, b.high, c, b.flag, n + 1,
                                pr \cup {mid})

DTCMP_Search_local_high_binary(t, lst, lo, hi, c) ==
  HighLoop(t, lst, lo, hi, c, 0, 0, {})

\* ------------------------------------------------------------------ batched search
\* int mid = num / 2
ListMid(n) == CDiv2(n)

\* the split point: the index of the middle target, brought down to high
SplitIndex(idx, hi) == IF idx > hi THEN hi ELSE idx

\* variant: the top half starts at the middle target
UpperIndexNoSkip(mid) == mid

\* int upper_index = mid + 1
UpperIndex(mid) == AddInt(mid, 1)

\* int upper_count = num - upper_index
UpperCount(n, mid) == SubInt(n, UpperIndex(mid))

\* the element of a singleton; {F(x) : x \in {v}} computes v once
The(S) == CHOOSE x \in S : TRUE

\* what a call has done so far: the output memory and what was read
NoWork(ind) ==
  [indicies |-> ind, index |-> Unset, ncmp |-> 0, probes |-> {}, treads |-> {},
   calls |-> {}, fault |-> FALSE]

\* indicies[mid] = index, for the outcome r of the search of the target at
\* slot; the target is read when the comparator is given it
StoreIndex(st, slot, r) ==
  LET read == IF r.probes = {} THEN st.treads ELSE st.treads \cup {slot}
  IN IF r.fault
     THEN [st EXCEPT !.fault = TRUE, !.ncmp = @ + r.ncmp,
                     !.probes = @ \cup r.probes, !.treads = read]
     ELSE [st EXCEPT !.index = r.index, !.indicies[slot] = r.index,
                     !.ncmp = @ + r.ncmp, !.probes = @ \cup r.probes,
                     !.treads = read]

\* lines 149-154: the search of the middle target and the store of its
\* index; off is how far the callers advanced the targets and indicies pointers
MiddleSearch(n, ts, lst, lo, hi, c, off, st) ==
  LET mid == ListMid(n)
      t == TargetAt(ts, off + mid)
  IN The({StoreIndex(st, off + mid, r) :
            r \in {DTCMP_Search_local_low_binary(t, lst, lo, hi, c)}})

\* a recursive call: what it is given, and what its caller was given
Call(n, lo, hi, cn, clo, chi) ==
  [num |-> cn, low |-> clo, high |-> chi,
   caller |-> [num |-> n, low |-> lo, high |-> hi]]

RECURSIVE LowList(_, _, _, _, _, _, _, _)

\* lines 163-169: the bottom half of the targets, over low .. index
LowerHalf(n, ts, lst, lo, hi, c, off, s1) ==
  LET mid == ListMid(n)
      idx == SplitIndex(s1.index, hi)
  IN IF s1.fault \/ ~(mid > 0) THEN s1
     ELSE LowList(mid, ts, lst, lo, idx, c, off,
            [s1 EXCEPT !.calls = @ \cup {Call(n, lo, hi, mid, lo, idx)}])

\* lines 171-179: the top half of the targets, over index .. high; idx is
\* the local index, which the bottom half's call does not change
UpperHalf(n, ts, lst, idx, lo, hi, c, off, s2) ==
  LET upper_index == UpperIndex(ListMid(n))
      upper_count == UpperCount(n, ListMid(n))
  IN IF s2.fault \/ ~(upper_count > 0) THEN s2
     ELSE LowList(upper_count, ts, lst, idx, hi, c, off + upper_index,
            [s2 EXCEPT !.calls = @ \cup {Call(n, lo, hi, upper_count, idx, hi)}])

\* lines 156-179: the two halves, one after the other
BothHalves(n, ts, lst, lo, hi, c, off, s1) ==
  The({UpperHalf(n, ts, lst, SplitIndex(s1.index, hi), lo, hi, c, off, s2) :
         s2 \in {LowerHalf(n, ts, lst, lo, hi, c, off, s1)}})

LowList(n, ts, lst, lo, hi, c, off, st) ==
  The({BothHalves(n, ts, lst, lo, hi, c, off, s1) :
         s1 \in {MiddleSearch(n, ts, lst, lo, hi, c, off, st)}})

DTCMP_Search_local_low_list_binary(n, ts, lst, lo, hi, c, ind) ==
  LowList(n, ts, lst, lo, hi, c, 0, NoWork(ind))

\* ------------------------------------------------------------------ callers
NoIndicies == [i \in 0..MaxNum |-> Unset]

\* windows a caller passes: low in 0..len, high in -1..len-1
WindowLows(lst) == 0..Len(lst)
WindowHighs(lst) == (-1)..(Len(lst) - 1)

Init ==
  /\ cmp \in Ops
  /\ list \in OrderedLists(cmp)
  /\ outside \in Keys \cup {Trap}
  /\ op = "none"
  /\ target = 1
  /\ targets = <<>>
  /\ num = 0
  /\ low = 0
  /\ high = -1
  /\ flag = 0
  /\ index = Unset
  /\ indicies = NoIndicies
  /\ ncmp = 0
  /\ probes = {}
  /\ treads = {}
  /\ calls = {}
  /\ status = "ok"
  /\ pc = "idle"
  /\ tasks = {}
  /\ written = [i \in 0..MaxNum |-> 0]

Inputs == <<list, cmp, outside>>
ListState == <<targets, num, indicies, treads, calls, tasks, written>>

\* a call of DTCMP_Search_local_low_binary
CallLow ==
  /\ pc = "idle"
  /\ \E t \in Keys, lo \in WindowLows(list), hi \in WindowHighs(list) :
    LET r == DTCMP_Search_local_low_binary(t, list, lo, hi, cmp)
    IN /\ pc' = "done"
       /\ op' = "low"
       /\ target' = t
       /\ low' = lo
       /\ high' = hi
       /\ flag' = r.flag
       /\ index' = r.index
       /\ ncmp' = r.ncmp
       /\ probes' = r.probes
       /\ status' = IF r.fault THEN "fault" ELSE "ok"
       /\ UNCHANGED <<Inputs, ListState>>

\* a call of DTCMP_Search_local_high_binary
CallHigh ==
  /\ pc = "idle"
  /\ \E t \in Keys, lo \in WindowLows(list), hi \in WindowHighs(list) :
    LET r == DTCMP_Search_local_high_binary(t, list, lo, hi, cmp)
    IN /\ pc' = "done"
       /\ op' = "high"
       /\ target' = t
       /\ low' = lo
       /\ high' = hi
       /\ flag' = r.flag
       /\ index' = r.index
       /\ ncmp' = r.ncmp
       /\ probes' = r.probes
       /\ status' = IF r.fault THEN "fault" ELSE "ok"
       /\ UNCHANGED <<Inputs, ListState>>

Next == CallLow \/ CallHigh

Spec == Init /\ [][Next]_vars

\* the arrays of targets a caller passes: ordered under the operation
TargetArrays(c) == {s \in UNION {[1..k -> Keys] : k \in 0..MaxNum} : Ordered(s, c)}

\* a call of DTCMP_Search_local_low_list_binary
CallLowList ==
  /\ pc = "idle"
  /\ \E ts \in TargetArrays(cmp), lo \in WindowLows(list), hi \in WindowHighs(list) :
    LET r == DTCMP_Search_local_low_list_binary(Len(ts), ts, list, lo, hi, cmp,
                                                indicies)
    IN /\ pc' = "done"
       /\ op' = "lowlist"
       /\ num' = Len(ts)
       /\ targets' = ts
       /\ low' = lo
       /\ high' = hi
       /\ indicies' = r.indicies
       /\ ncmp' = r.ncmp
       /\ probes' = r.probes
       /\ treads' = r.treads
       /\ calls' = r.calls
       /\ status' = IF r.fault THEN "fault" ELSE "ok"
       /\ UNCHANGED <<Inputs, target, flag, index, tasks, written>>

NextList == CallLowList

SpecList == Init /\ [][NextList]_vars

\* ------------------------------------------------------------------ fork-join
\* The two recursive calls of DTCMP_Search_local_low_list_binary run as
\* branches whose loop iterations interleave in any order; the in-order
\* execution of the source is one of the interleavings.  The first call is
\* given the whole list; the branches get the windows the code computes.
Branch(n, off, lo, hi) ==
  [num |-> n, off |-> off, lo |-> lo, hi |-> hi,
   low |-> lo, high |-> hi, flag |-> 0, brk |-> FALSE]

\* the slots of indicies a branch and its descendants own
Slots(k) == {i \in 0..MaxNum : k.off <= i /\ i < k.off + k.num}

\* the window of a caller that searches all of its list: 0 .. len - 1
WholeWindow(lst) == <<0, Len(lst) - 1>>

ForkStart ==
  /\ pc = "idle"
  /\ \E ts \in TargetArrays(cmp), w \in {WholeWindow(list)} :
       /\ pc' = "run"
       /\ op' = "lowlist"
       /\ num' = Len(ts)
       /\ targets' = ts
       /\ low' = w[1]
       /\ high' = w[2]
       /\ tasks' = {Branch(Len(ts), 0, w[1], w[2])}
       /\ UNCHANGED <<Inputs, target, flag, index, indicies, ncmp, probes,
                      treads, calls, status, written>>

\* one iteration of the loop of a branch's search (lines 31-56)
ForkProbe ==
  /\ pc = "run"
  /\ status = "ok"
  /\ \E k \in tasks :
       /\ ~k.brk
       /\ k.low <= k.high
       /\ LET slot == k.off + ListMid(k.num)
              t == TargetAt(targets, slot)
              mid == LowMid(k.low, k.high)
              candidate == ListAt(list, mid)
              b == LowBody(k.low, k.high, k.flag, mid,
                           dtcmp_op_eval(t, candidate, cmp))
          IN /\ probes' = probes \cup {mid}
             /\ treads' = treads \cup {slot}
             /\ IF candidate = Trap \/ t = Trap
                THEN /\ status' = "fault"
                     /\ UNCHANGED <<tasks, ncmp>>
                ELSE /\ status' = status
                     /\ ncmp' = ncmp + 1
                     /\ tasks' = (tasks \ {k}) \cup
                          {[k EXCEPT !.low = b.low, !.high = b.high,
                                     !.flag = b.flag, !.brk = b.brk]}
  /\ UNCHANGED <<Inputs, op, target, targets, num, low, high, flag, index,
                 indicies, calls, pc, written>>

\* the end of a branch's search: the index is stored and the two halves
\* are forked (lines 58-67, 154-179)
ForkStore ==
  /\ pc = "run"
  /\ status = "ok"
  /\ \E k \in tasks :
       /\ k.brk \/ ~(k.low <= k.high)
       /\ LET mid == ListMid(k.num)
              slot == k.off + mid
              idx == SplitIndex(LowIndex(k.flag, k.high), k.hi)
              lower == IF mid > 0 THEN {Branch(mid, k.off, k.lo, idx)} ELSE {}
              upper == IF UpperCount(k.num, mid) > 0
                       THEN {Branch(UpperCount(k.num, mid),
                                    k.off + UpperIndex(mid), idx, k.hi)}
                       ELSE {}
          IN /\ indicies' = [indicies EXCEPT ![slot] = LowIndex(k.flag, k.high)]
             /\ written' = [written EXCEPT ![slot] = @ + 1]
             /\ tasks' = ((tasks \ {k}) \cup lower) \cup upper
  /\ UNCHANGED <<Inputs, op, target, targets, num, low, high, flag, index,
                 ncmp, probes, treads, calls, status, pc>>

\* the join: every branch has returned
ForkJoin ==
  /\ pc = "run"
  /\ status = "ok"
  /\ tasks = {}
  /\ pc' = "done"
  /\ UNCHANGED <<Inputs, op, target, targets, num, low, high, flag, index,
                 indicies, ncmp, probes, treads, calls, status, tasks, written>>

NextFork == ForkStart \/ ForkProbe \/ ForkStore \/ ForkJoin

SpecFork == Init /\ [][NextFork]_vars

\* ------------------------------------------------------------------ the loops
\* The loops of the two searches, one iteration at a time, with the
\* comparator free to return any result at each probe.
BigLows == {(IntMax \div 2) + 1, IntMax - MaxLen}

\* windows of short lists, and windows of at most MaxLen + 1 records far
\* into a list of more than IntMax / 2 records
LoopWindows ==
  ((0..MaxLen) \X ((-1)..MaxLen)) \cup
  {<<l, l + d>> : l \in BigLows, d \in (-1)..MaxLen}

InitLoop ==
  /\ cmp = "ASCEND"
  /\ list = <<>>
  /\ outside = Trap
  /\ op \in {"low", "high"}
  /\ target = 1
  /\ targets = <<>>
  /\ num = 0
  /\ \E w \in LoopWindows : low = w[1] /\ high = w[2]
  /\ flag = 0
  /\ index = Unset
  /\ indicies = NoIndicies
  /\ ncmp = 0
  /\ probes = {}
  /\ treads = {}
  /\ calls = {}
  /\ status = "ok"
  /\ pc = "loop"
  /\ tasks = {}
  /\ written = [i \in 0..MaxNum |-> 0]

LoopFrame == <<Inputs, op, target, targets, num, indicies, treads, calls,
               status, tasks, written>>

\* one iteration of the loop of DTCMP_Search_local_low_binary
LowIteration ==
  /\ pc = "loop"
  /\ op = "low"
  /\ low <= high
  /\ ncmp < MaxIter
  /\ \E result \in {-1, 0, 1} :
       LET mid == LowMid(low, high)
           b == LowBody(low, high, flag, mid, result)
       IN /\ low' = b.low
          /\ high' = b.high
          /\ flag' = b.flag
          /\ pc' = IF b.brk THEN "break" ELSE "loop"
          /\ probes' = probes \cup {mid}
  /\ ncmp' = ncmp + 1
  /\ UNCHANGED <<LoopFrame, index>>

\* one iteration of the loop of DTCMP_Search_local_high_binary
HighIteration ==
  /\ pc = "loop"
  /\ op = "high"
  /\ low <= high
  /\ ncmp < MaxIter
  /\ \E result \in {-1, 0, 1} :
       LET mid == HighMid(low, high)
           b == HighBody(low, high, flag, mid, result)
       IN /\ low' = b.low
          /\ high' = b.high
          /\ flag' = b.flag
          /\ pc' = IF b.brk THEN "break" ELSE "loop"
          /\ probes' = probes \cup {mid}
  /\ ncmp' = ncmp + 1
  /\ UNCHANGED <<LoopFrame, index>>

\* the loop is left: the index is set
LoopExit ==
  /\ pc = "break" \/ (pc = "loop" /\ ~(low <= high))
  /\ index' = IF op = "low" THEN LowIndex(flag, high) ELSE HighIndex(flag, low)
  /\ pc' = "done"
  /\ UNCHANGED <<LoopFrame, low, high, flag, ncmp, probes>>

NextLoop == LowIteration \/ HighIteration \/ LoopExit

SpecLoop == InitLoop /\ [][NextLoop]_vars

\* ------------------------------------------------------------------ claims
Min(S) == CHOOSE x \in S : \A y \in S : x <= y
Max(S) == CHOOSE x \in S : \A y \in S : x >= y

Positions == 0..(Len(list) - 1)
WholeList == low = 0 /\ high = Len(list) - 1
Occurrences(t) == {i \in Positions : dtcmp_op_eval(t, list[i + 1], cmp) = 0}

\* smallest i with list[i] >= t under the comparator, or len
LowerBound(t) ==
  Min({i \in Positions : dtcmp_op_eval(t, list[i + 1], cmp) <= 0} \cup {Len(list)})

\* largest i with list[i] <= t under the comparator, or -1
UpperBound(t) ==
  Max({i \in Positions : dtcmp_op_eval(t, list[i + 1], cmp) >= 0} \cup {-1})

\* C1: on the whole of an ordered list the low search returns the smallest
\* index whose record is not below the target (len if none), and sets flag
\* exactly when the record at that index equals the target.
C1_LowerBound ==
  (op = "low" /\ WholeList) =>
    /\ index = LowerBound(target)
    /\ (flag = 1) <=> (index \in Occurrences(target))
    /\ flag \in {0, 1}

C1_Witness ==
  /\ op = "low" /\ WholeList /\ Len(list) >= 3
  /\ flag = 1 /\ index >= 1 /\ Cardinality(Occurrences(target)) >= 2

\* C2: on the whole of an ordered list the high search returns the largest
\* index whose record is not above the target (-1 if none), and its flag has
\* the truth value of the low search's flag: set exactly when the target occurs.
C2_UpperBound ==
  (op = "high" /\ WholeList) =>
    /\ index = UpperBound(target)
    /\ flag = DTCMP_Search_local_low_binary(target, list, low, high, cmp).flag
    /\ (flag = 1) <=> (Occurrences(target) # {})

C2_Witness ==
  /\ op = "high" /\ WholeList /\ Len(list) >= 3
  /\ flag = 1 /\ index < Len(list) - 1 /\ Cardinality(Occurrences(target)) >= 2

\* C4: when the target occurs k >= 1 times, at positions a .. a+k-1, the low
\* search of the whole list returns (1, a) and the high search (1, a+k-1), so
\* the two indices span exactly the occurrences.
C4_Duplicates ==
  (op \in {"low", "high"} /\ WholeList /\ Occurrences(target) # {}) =>
    LET a == Min(Occurrences(target))
        k == Cardinality(Occurrences(target))
        lower == DTCMP_Search_local_low_binary(target, list, low, high, cmp)
        upper == DTCMP_Search_local_high_binary(target, list, low, high, cmp)
    IN /\ Occurrences(target) = a..(a + k - 1)
       /\ flag = 1
       /\ op = "low" => index = a
       /\ op = "high" => index = a + k - 1
       /\ op = "low" => upper.index - index + 1 = k
       /\ op = "high" => index - lower.index + 1 = k

C4_Witness ==
  /\ op = "high" /\ WholeList /\ Cardinality(Occurrences(target)) = 3
  /\ index = 3 /\ Len(list) = MaxLen

\* C6 as stated: on every empty window (low > high) the low search never
\* evaluates the comparator and returns flag 0 and index = low.
C6_EmptyWindowIndexIsLow ==
  (op = "low" /\ low > high) => (ncmp = 0 /\ flag = 0 /\ index = low)

\* C6 amended: on every empty window the low search never evaluates the
\* comparator and returns flag 0 and index = high + 1, which is low exactly
\* when low = high + 1.
C6_EmptyWindowIndexIsHighPlusOne ==
  (op = "low" /\ low > high) =>
    /\ ncmp = 0 /\ probes = {} /\ flag = 0
    /\ index = high + 1
    /\ (index = low) <=> (low = high + 1)

C6_Witness ==
  op = "low" /\ low > high + 1 /\ index = high + 1 /\ ncmp = 0

Reverse(s) == [i \in 1..Len(s) |-> s[Len(s) + 1 - i]]
Flip(c) == IF c = "ASCEND" THEN "DESCEND" ELSE "ASCEND"

\* the low search of the mirror image: list reversed, order reversed,
\* window reflected
MirrorLow ==
  DTCMP_Search_local_low_binary(target, Reverse(list), Len(list) - 1 - high,
                                Len(list) - 1 - low, Flip(cmp))

\* C10 as stated: the high search evaluates the comparator exactly as often
\* as the low search of the same target, list and window.
C10_SameStepsAsLow ==
  op = "high" =>
    ncmp = DTCMP_Search_local_low_binary(target, list, low, high, cmp).ncmp

\* C10 amended: the high search evaluates the comparator exactly as often as
\* the low search of the mirror image (list reversed, comparison reversed,
\* window reflected), and its index is the reflection of that search's index.
C10_SameStepsAsMirroredLow ==
  op = "high" =>
    /\ ncmp = MirrorLow.ncmp
    /\ index = Len(list) - 1 - MirrorLow.index
    /\ flag = MirrorLow.flag

C10_Witness ==
  /\ op = "high" /\ low < high /\ ncmp >= 2
  /\ ncmp # DTCMP_Search_local_low_binary(target, list, low, high, cmp).ncmp

\* the window lo..hi as a set of indices
Window(lo, hi) == {i \in (-1)..MaxLen : lo <= i /\ i <= hi}

\* C3 as stated: for every window and every ordered array of targets the
\* batched search leaves in indicies[j] the index the low search returns for
\* targets[j] over the same list and window.
C3_BatchedEqualsIndependent ==
  (op = "lowlist" /\ status = "ok") =>
    \A j \in 0..(num - 1) :
      indicies[j] =
        DTCMP_Search_local_low_binary(targets[j + 1], list, low, high, cmp).index

\* C5 as stated: with num = 0 the batched search evaluates the comparator
\* zero times, reads no target and leaves the output memory as it was.
C5_NoTargetsNoWork ==
  (op = "lowlist" /\ num = 0) =>
    (ncmp = 0 /\ treads = {} /\ indicies = NoIndicies /\ status = "ok")

\* C7 as stated: with num >= 1 and a window that is non-empty or has
\* low = high + 1, every recursive call receives a window inside its caller's
\* and every record given to the comparator lies in the caller's low..high.
C7_StaysInsideWindow ==
  (op = "lowlist" /\ num >= 1 /\ low <= high + 1) =>
    /\ probes \subseteq Window(low, high)
    /\ \A k \in calls :
         Window(k.low, k.high) \subseteq Window(k.caller.low, k.caller.high)

\* the result of the call as the source runs it, in order
InOrder ==
  DTCMP_Search_local_low_list_binary(num, targets, list, low, high, cmp, NoIndicies)

\* C9: the two recursive branches are independent.  Live branches own
\* disjoint slots of indicies, no slot is written twice and none that a live
\* branch still owns has been written; so whatever the interleaving, the
\* indicies at the join are those of the in-order execution, and a read
\* faults in an interleaving only if it faults in order.
C9_BranchesIndependent ==
  op = "lowlist" =>
    /\ \A a \in tasks : \A b \in tasks \ {a} : Slots(a) \cap Slots(b) = {}
    /\ \A a \in tasks : \A i \in Slots(a) : written[i] = 0
    /\ \A i \in 0..MaxNum : written[i] <= 1
    /\ \A i \in 0..MaxNum : (written[i] = 0) => (indicies[i] = Unset)
    /\ (pc = "done") => (indicies = InOrder.indicies /\ ~InOrder.fault)
    /\ (status = "fault") => InOrder.fault

C9_Witness ==
  /\ op = "lowlist" /\ pc = "run" /\ num = 3 /\ low < high
  /\ written[2] = 1 /\ written[0] = 0
  /\ \E a \in tasks : a.off = 0 /\ a.num = 1 /\ a.low # a.lo

\* high - low as a number, kept within IntMin .. IntMax
Width(lo, hi) ==
  IF lo < 0 /\ hi > IntMax + lo THEN IntMax
  ELSE IF lo > 0 /\ hi < IntMin + lo THEN IntMin
  ELSE hi - lo

\* C8 as stated: every iteration of either loop that does not break
\* strictly decreases high - low, whatever the comparator returns, for every
\* window with 0 <= low on entry; so the loop is left.
C8_IterationShrinksWindow ==
  [][(pc = "loop" /\ pc' = "loop") => Width(low', high') < Width(low, high)]_vars

====
